---- MODULE Spec2Model ----
(***************************************************************************)
(* A model of the C wrapper generator of qt_wrapper_generator              *)
(* (src/qt_wrapper_generator/src/c_generator.rs): CGenerator::generate_all *)
(* drives generate_one once per include file; generate_one writes the      *)
(* type declarations (generate_type_declaration, struct_declaration) and   *)
(* the wrappers of the methods (CppAndCMethod::header_code, source_code).  *)
(* Generated text is kept as a sequence of tokens, one per written         *)
(* construct, in the order in which the code writes them.  A panic!() or   *)
(* a failed unwrap() ends the run in pc = "panicked" with everything that  *)
(* was written before it left in place.                                    *)
(***************************************************************************)
EXTENDS Integers, Sequences, FiniteSets, TLC

VARIABLES cpp_data, pc, pending, cur, all_header_file, created, h_file, cpp_file,
          forward_declared_classes, own_queue, methods, idx, c_headers, panic

vars == <<cpp_data, pc, pending, cur, all_header_file, created, h_file, cpp_file,
          forward_declared_classes, own_queue, methods, idx, c_headers, panic>>

(***************************************************************************)
(* Bounds of the model.                                                    *)
(***************************************************************************)
\* The most wrappers process_methods yields over one run, in the inputs whose
\* wrappers range over the types of the type map.
MaxMethods == 2

(***************************************************************************)
(* The type map (cpp_data.types): the input the extractor hands over.      *)
(***************************************************************************)
Headers == {"qpoint", "qobject"}

NoHeader == "none"

TypeInfo(origin, include_file, kind, size, meaning, values) ==
  [origin |-> origin, include_file |-> include_file, kind |-> kind,
   size |-> size, meaning |-> meaning, values |-> values]

\* size: <<>> is None, <<n>> is Some(n).
TypeNames ==
  <<"void", "int", "wchar_t", "std::size_t", "qint32", "QPoint", "QColor",
    "QPointF", "QObject", "Qt::Flags", "QPointAlias", "QVariant", "QPrivate",
    "CXType">>

types ==
  [n \in {TypeNames[k] : k \in 1..Len(TypeNames)} |->
     CASE n = "void"        -> TypeInfo("CBuiltIn", NoHeader, "CPrimitive", <<>>, "", <<>>)
       [] n = "int"         -> TypeInfo("CBuiltIn", NoHeader, "CPrimitive", <<>>, "", <<>>)
       [] n = "wchar_t"     -> TypeInfo("CBuiltIn", NoHeader, "CPrimitive", <<>>, "", <<>>)
       [] n = "std::size_t" -> TypeInfo("CBuiltIn", NoHeader, "CPrimitive", <<>>, "", <<>>)
       [] n = "qint32"      -> TypeInfo("Qt", "qpoint", "CPrimitive", <<>>, "", <<>>)
       [] n = "QPoint"      -> TypeInfo("Qt", "qpoint", "Class", <<8>>, "", <<>>)
       [] n = "QColor"      -> TypeInfo("Qt", "qpoint", "Enum", <<>>, "",
                                        << <<"A", 0>>, <<"B", 1>> >>)
       [] n = "QPointF"     -> TypeInfo("Qt", "qpoint", "Class", <<>>, "", <<>>)
       [] n = "QObject"     -> TypeInfo("Qt", "qobject", "Class", <<16>>, "", <<>>)
       [] n = "Qt::Flags"   -> TypeInfo("Qt", "qobject", "Flags", <<>>, "", <<>>)
       [] n = "QPointAlias" -> TypeInfo("Qt", "qobject", "TypeDef", <<>>, "QPoint", <<>>)
       [] n = "QVariant"    -> TypeInfo("Unsupported", NoHeader, "Unknown", <<>>, "", <<>>)
       [] n = "QPrivate"    -> TypeInfo("Qt", "qobject", "Unknown", <<>>, "", <<>>)
       [] n = "CXType"      -> TypeInfo("CLang", NoHeader, "Class", <<>>, "", <<>>)]

\* The names that hold the C++ scope separator "::".
HasScopeSeparator(name) == name \in {"std::size_t", "Qt::Flags"}

(***************************************************************************)
(* CTypeExtended: the C type, the C++ type it stands for, the conversion.  *)
(***************************************************************************)
CTypeExtended(c_base, c_pointer, cpp_base, cpp_unspecified, change, renamed, qflags) ==
  [c_base |-> c_base, c_pointer |-> c_pointer, cpp_base |-> cpp_base,
   cpp_unspecified |-> cpp_unspecified, indirection_change |-> change,
   renamed |-> renamed, qflags_to_uint |-> qflags]

VoidType == CTypeExtended("void", FALSE, "void", TRUE, "NoChange", FALSE, FALSE)

CName(name) ==
  CASE name = "std::size_t" -> "std_size_t"
    [] name = "Qt::Flags"   -> "Qt_Flags"
    [] OTHER                -> name

\* CppType::to_c_type of a by-value type of the type map: <<>> is Err.
ToCType(name) ==
  IF name \notin DOMAIN types THEN <<>>
  ELSE LET info == types[name] IN
       IF info.origin \in {"Unsupported", "Unknown"} \/ info.kind = "Unknown"
       THEN <<>>
       ELSE << CTypeExtended(CName(name), info.kind = "Class", name, TRUE,
                             IF info.kind = "Class" THEN "ValueToPointer" ELSE "NoChange",
                             CName(name) # name, info.kind = "Flags") >>

\* What process_methods hands over for a type to_c_type refuses: the type as it is.
RawCType(name) == CTypeExtended(CName(name), FALSE, name, TRUE, "NoChange", FALSE, FALSE)

SignatureType(name) == IF ToCType(name) = <<>> THEN RawCType(name) ELSE ToCType(name)[1]

\* get_types_from_include_file: the types of the type map an include file owns.
RECURSIVE TypesFrom(_, _)
TypesFrom(include_file, k) ==
  IF k > Len(TypeNames) THEN <<>>
  ELSE LET n == TypeNames[k] IN
       (IF types[n].origin = "Qt" /\ types[n].include_file = include_file
        THEN <<n>> ELSE <<>>) \o TypesFrom(include_file, k + 1)

get_types_from_include_file(include_file) == TypesFrom(include_file, 1)

(***************************************************************************)
(* Generated text.                                                         *)
(***************************************************************************)
\* ctx: "c" is only_c_code, "cpp" is only_cpp_code, "any" is unguarded text.
Token(form, ctx, name, size, of, values) ==
  [form |-> form, ctx |-> ctx, name |-> name, size |-> size, of |-> of,
   values |-> values]

Line(form, name) == Token(form, "any", name, -1, "", <<>>)

only_c_code(form, name, size, of, values) == Token(form, "c", name, size, of, values)

only_cpp_code(form, name, of) == Token(form, "cpp", name, -1, of, <<>>)

Contains(seq, x) == \E k \in 1..Len(seq) : seq[k] = x

(***************************************************************************)
(* CGenerator::struct_declaration and generate_type_declaration.           *)
(* The result: the text, the already_declared list, the panic ("" = none). *)
(***************************************************************************)
DeclResult(text, declared, failure) ==
  [text |-> text, declared |-> declared, failure |-> failure]

struct_declaration(c_struct_name, cpp_type_info, full_declaration) ==
  IF HasScopeSeparator(c_struct_name)
  THEN DeclResult(<<>>, <<>>, "struct_declaration called for invalid struct name")
  ELSE IF cpp_type_info.kind # "Class"
  THEN DeclResult(<<>>, <<>>, "struct_declaration(): cpp type is not a class")
  ELSE IF full_declaration /\ cpp_type_info.size # <<>>
  THEN DeclResult(<<only_c_code("struct_full", c_struct_name, cpp_type_info.size[1], "", <<>>)>>,
                  <<>>, "")
  ELSE DeclResult(<<only_c_code("struct_forward", c_struct_name, -1, "", <<>>)>>, <<>>, "")

\* A slip: every declaration taken for a full one.
needs_full_declaration_always(current_include_file, include_file) == TRUE

needs_full_declaration(current_include_file, include_file) ==
  current_include_file = include_file

RECURSIVE generate_type_declaration(_, _, _)
generate_type_declaration(c_type_extended, current_include_file, already_declared) ==
  LET c_base == c_type_extended.c_base
      cpp_type_base == c_type_extended.cpp_base
      renaming(r) ==
        IF r.failure = "" /\ c_type_extended.renamed
        THEN [r EXCEPT !.text = @ \o <<only_cpp_code("rename_typedef", c_base, cpp_type_base)>>]
        ELSE r
  IN
  IF Contains(already_declared, c_base)
  THEN DeclResult(<<>>, already_declared, "")
  ELSE IF c_base = "wchar_t"
  THEN DeclResult(<<only_c_code("include_wchar", "wchar_t", -1, "", <<>>)>>,
                  already_declared, "")
  ELSE IF ~c_type_extended.cpp_unspecified
  THEN DeclResult(<<>>, already_declared, "new cpp types are not supported here yet")
  ELSE IF cpp_type_base \notin DOMAIN types
  THEN DeclResult(<<>>, already_declared, "called Option::unwrap() on a None value")
  ELSE
  LET type_info == types[cpp_type_base] IN
  CASE type_info.origin = "CBuiltIn" ->
         renaming(DeclResult(<<>>, already_declared, ""))
    [] type_info.origin \in {"Unsupported", "Unknown"} ->
         DeclResult(<<>>, already_declared, "this type should have been filtered previously")
    [] type_info.origin = "CLang" ->
         DeclResult(<<>>, already_declared, "not yet implemented")
    [] type_info.origin = "Qt" ->
         LET full == needs_full_declaration(current_include_file, type_info.include_file)
             declaration ==
               CASE type_info.kind = "Unknown" ->
                      DeclResult(<<>>, already_declared,
                                 "this type should have been filtered previously")
                 [] type_info.kind = "CPrimitive" ->
                      DeclResult(<<>>, already_declared, "")
                 [] type_info.kind = "Enum" ->
                      DeclResult(
                        <<IF full
                          THEN only_c_code("enum_full", c_base, -1, "", type_info.values)
                          ELSE only_c_code("enum_forward", c_base, -1, "", <<>>)>>,
                        already_declared, "")
                 [] type_info.kind = "Flags" ->
                      DeclResult(<<Token("flags_typedef", "any", c_base, -1, "unsigned int", <<>>)>>,
                                 already_declared, "")
                 [] type_info.kind = "TypeDef" ->
                      LET c_meaning == ToCType(type_info.meaning) IN
                      IF c_meaning = <<>>
                      THEN DeclResult(<<>>, already_declared,
                                      "called Result::unwrap() on an Err value")
                      ELSE LET inner == generate_type_declaration(
                                          c_meaning[1], current_include_file, already_declared)
                           IN IF inner.failure # "" THEN inner
                              ELSE DeclResult(
                                     inner.text \o
                                       <<only_c_code("typedef", c_base, -1,
                                                     c_meaning[1].c_base, <<>>)>>,
                                     inner.declared, "")
                 [] type_info.kind = "Class" ->
                      LET s == struct_declaration(c_base, type_info, full) IN
                      DeclResult(s.text, already_declared, s.failure)
         IN IF declaration.failure # "" THEN declaration
            ELSE renaming([declaration EXCEPT !.declared = Append(@, c_base)])

(***************************************************************************)
(* CppAndCMethod: a C++ method, its allocation place and its C signature.  *)
(***************************************************************************)
\* A C++ type of a method: its base name, and whether the base is
\* CppTypeBase::Unspecified.
CppType(base, unspecified) == [base |-> base, unspecified |-> unspecified]

\* cpp_equivalent: "This", "ReturnValue" or "Argument" with its index.
CArgument(name, role, index, argument_type) ==
  [name |-> name, role |-> role, index |-> index, argument_type |-> argument_type]

GlobalScope == "Global"

\* return_type: <<>> is None, <<t>> is Some(t).
CppAndCMethod(c_name, name, scope, flags, arguments, return_type, allocation_place, c_return_type, c_arguments) ==
  [c_name |-> c_name, name |-> name, scope |-> scope,
   is_constructor |-> flags.is_constructor, is_destructor |-> flags.is_destructor,
   is_static |-> flags.is_static, is_protected |-> flags.is_protected,
   is_signal |-> flags.is_signal,
   arguments |-> arguments, return_type |-> return_type,
   allocation_place |-> allocation_place,
   c_return_type |-> c_return_type, c_arguments |-> c_arguments]

Flags(ctor, dtor, static, protected, signal) ==
  [is_constructor |-> ctor, is_destructor |-> dtor, is_static |-> static,
   is_protected |-> protected, is_signal |-> signal]

\* self.c_signature.arguments.iter().find(..): <<>> is None, <<arg>> the first match.
RECURSIVE FindFrom(_, _, _, _)
FindFrom(c_arguments, role, index, k) ==
  IF k > Len(c_arguments) THEN <<>>
  ELSE IF c_arguments[k].role = role /\ c_arguments[k].index = index
  THEN <<c_arguments[k]>>
  ELSE FindFrom(c_arguments, role, index, k + 1)

Find(c_arguments, role, index) == FindFrom(c_arguments, role, index, 1)

\* An expression of the generated C++: the call, and the conversions wrapped
\* around it, innermost first.
Layer(op, x, y) == [op |-> op, x |-> x, y |-> y]

Expression(kind, qualifier, name, args, layers) ==
  [kind |-> kind, qualifier |-> qualifier, name |-> name, args |-> args,
   layers |-> layers]

NoExpression == Expression("", "", "", <<>>, <<>>)

Wrapped(expression, layer) == [expression EXCEPT !.layers = Append(@, layer)]

Outcome(value, failure) == [value |-> value, failure |-> failure]

\* to_c_code of a C type.
to_c_code(t) == <<t.c_base, IF t.c_pointer THEN 1 ELSE 0>>

RECURSIVE ArgumentsCode(_, _)
ArgumentsCode(c_arguments, k) ==
  IF k > Len(c_arguments) THEN <<>>
  ELSE <<to_c_code(c_arguments[k].argument_type)>> \o ArgumentsCode(c_arguments, k + 1)

arguments_to_c_code(m) == ArgumentsCode(m.c_arguments, 1)

header_code(m) ==
  Token("method_declaration", "any", m.c_name, IF m.c_return_type.c_pointer THEN 1 ELSE 0,
        m.c_return_type.c_base, arguments_to_c_code(m))

\* The stack-place step of convert_return_type (lines 80-95): the value built in
\* place in the ReturnValue argument, around everything wrapped before it.
stack_place_step(m, r) ==
  IF r.failure # "" THEN r
  ELSE IF m.allocation_place = "Stack" /\ ~m.is_constructor
  THEN LET arg == Find(m.c_arguments, "ReturnValue", -1) IN
       IF arg = <<>> THEN r
       ELSE IF m.return_type = <<>>
       THEN Outcome(NoExpression, "cpp self unexpectedly doesn't have return type")
       ELSE IF ~m.return_type[1].unspecified
       THEN Outcome(NoExpression, "new cpp types are not supported here yet")
       ELSE Outcome(Wrapped(r.value, Layer("placement_new", arg[1].name, m.return_type[1].base)),
                    "")
  ELSE r

\* The indirection change of convert_return_type (lines 40-67).
indirection_step(m, expression) ==
  LET change == m.c_return_type.indirection_change IN
  CASE change = "NoChange" -> Outcome(expression, "")
    [] change = "ValueToPointer" ->
         IF m.allocation_place = "Stack"
         THEN Outcome(NoExpression, "stack allocated wrappers are expected to return void!")
         ELSE IF m.is_constructor THEN Outcome(expression, "")
         ELSE IF m.return_type = <<>>
         THEN Outcome(NoExpression, "cpp self unexpectedly doesn't have return type")
         ELSE IF ~m.return_type[1].unspecified
         THEN Outcome(NoExpression, "new cpp types are not supported here yet")
         ELSE Outcome(Wrapped(expression, Layer("new", m.return_type[1].base, "")), "")
    [] change = "ReferenceToPointer" ->
         Outcome(Wrapped(expression, Layer("address_of", "", "")), "")

\* The renaming and the QFlags steps of convert_return_type (lines 68-78).
renamed_step(m, r) ==
  IF r.failure = "" /\ m.c_return_type.renamed
  THEN Outcome(Wrapped(r.value, Layer("reinterpret_cast", m.c_return_type.c_base,
                                      IF m.c_return_type.c_pointer THEN "*" ELSE "")), "")
  ELSE r

qflags_step(m, r) ==
  IF r.failure = "" /\ m.c_return_type.qflags_to_uint
  THEN Outcome(Wrapped(r.value, Layer("uint", "", "")), "")
  ELSE r

convert_return_type(m, expression) ==
  stack_place_step(m, qflags_step(m, renamed_step(m, indirection_step(m, expression))))

\* One filled argument of arguments_values: the C argument, unwrapped.
ArgumentValue(cpp_argument, c_argument) ==
  LET conv == c_argument.argument_type
      deref == IF conv.indirection_change \in {"ValueToPointer", "ReferenceToPointer"}
               THEN <<Layer("deref", "", "")>> ELSE <<>>
      cast == IF conv.renamed
              THEN <<Layer("reinterpret_cast", cpp_argument.base, "")>> ELSE <<>>
  IN IF conv.qflags_to_uint /\ ~cpp_argument.unspecified
     THEN Outcome(NoExpression, "new cpp types are not supported here yet")
     ELSE Outcome(
            Expression("argument", "", c_argument.name, <<>>,
                       deref \o cast \o
                       (IF conv.qflags_to_uint
                        THEN <<Layer("construct", cpp_argument.base, "")>> ELSE <<>>)),
            "")

\* arguments_values: Outcome of the sequence of filled arguments.
RECURSIVE ArgumentsValuesFrom(_, _)
ArgumentsValuesFrom(m, i) ==
  IF i > Len(m.arguments) THEN Outcome(<<>>, "")
  ELSE LET c_argument == Find(m.c_arguments, "Argument", i - 1) IN
       IF c_argument = <<>>
       THEN Outcome(<<>>, "Error: no positional argument found")
       ELSE LET one == ArgumentValue(m.arguments[i], c_argument[1])
                rest == ArgumentsValuesFrom(m, i + 1)
            IN IF one.failure # "" THEN Outcome(<<>>, one.failure)
               ELSE IF rest.failure # "" THEN rest
               ELSE Outcome(<<one.value>> \o rest.value, "")

arguments_values(m) == ArgumentsValuesFrom(m, 1)

\* A slip: a constructor built on the heap whatever its allocation place.
call_target_heap_only(m) ==
  IF m.is_constructor
  THEN IF m.scope = GlobalScope
       THEN Outcome(NoExpression, "constructor not in class scope")
       ELSE Outcome(Expression("new", "", m.scope, <<>>, <<>>), "")
  ELSE IF m.scope # GlobalScope
  THEN IF m.is_static
       THEN Outcome(Expression("static_call", m.scope, m.name, <<>>, <<>>), "")
       ELSE LET arg == Find(m.c_arguments, "This", -1) IN
            IF arg = <<>>
            THEN Outcome(NoExpression, "Error: no this argument found")
            ELSE Outcome(Expression("member_call", arg[1].name, m.name, <<>>, <<>>), "")
  ELSE Outcome(Expression("free_call", "", m.name, <<>>, <<>>), "")

\* result_without_args of returned_expression: the call target.
call_target(m) ==
  IF m.is_constructor
  THEN IF m.scope = GlobalScope
       THEN Outcome(NoExpression, "constructor not in class scope")
       ELSE IF m.allocation_place = "Stack"
       THEN LET arg == Find(m.c_arguments, "ReturnValue", -1) IN
            IF arg = <<>>
            THEN Outcome(NoExpression, "no return value equivalent argument found")
            ELSE Outcome(Expression("placement_new", arg[1].name, m.scope, <<>>, <<>>), "")
       ELSE Outcome(Expression("new", "", m.scope, <<>>, <<>>), "")
  ELSE IF m.scope # GlobalScope
  THEN IF m.is_static
       THEN Outcome(Expression("static_call", m.scope, m.name, <<>>, <<>>), "")
       ELSE LET arg == Find(m.c_arguments, "This", -1) IN
            IF arg = <<>>
            THEN Outcome(NoExpression, "Error: no this argument found")
            ELSE Outcome(Expression("member_call", arg[1].name, m.name, <<>>, <<>>), "")
  ELSE Outcome(Expression("free_call", "", m.name, <<>>, <<>>), "")

returned_expression(m) ==
  IF m.is_destructor
  THEN LET arg == Find(m.c_arguments, "This", -1) IN
       IF arg = <<>>
       THEN Outcome(NoExpression, "Error: no this argument found")
       ELSE convert_return_type(
              m, Expression("qtcw_call_destructor", arg[1].name, "", <<>>, <<>>))
  ELSE LET target == call_target(m) IN
       IF target.failure # "" THEN target
       ELSE LET values == arguments_values(m) IN
            IF values.failure # "" THEN Outcome(NoExpression, values.failure)
            ELSE convert_return_type(m, [target.value EXCEPT !.args = values.value])

\* source_body: the statement of the wrapper; returns says whether it starts
\* with "return ".
Body(returns, expression) == [returns |-> returns, expression |-> expression]

source_body(m) ==
  IF m.is_destructor /\ m.allocation_place = "Heap"
  THEN LET arg == Find(m.c_arguments, "This", -1) IN
       IF arg = <<>>
       THEN Outcome(Body(FALSE, NoExpression), "Error: no this argument found")
       ELSE Outcome(Body(FALSE, Expression("delete", arg[1].name, "", <<>>, <<>>)), "")
  ELSE LET e == returned_expression(m) IN
       Outcome(Body(m.c_return_type # VoidType, e.value), e.failure)

\* A line of the source file.
SourceToken(form, name, body) == [form |-> form, name |-> name, body |-> body]

source_code(m) ==
  LET b == source_body(m) IN
  Outcome(SourceToken("method_definition", m.c_name, b.value), b.failure)

(***************************************************************************)
(* The inputs: the include files split_by_headers yields, and what         *)
(* process_methods yields for each.  Three families: plain wrappers over   *)
(* every type of the type map, in two include files; one wrapper of every  *)
(* shape; and well-formed wrappers with every filter flag.                 *)
(***************************************************************************)
NoFlags == Flags(FALSE, FALSE, FALSE, FALSE, FALSE)

\* void show(T): a free function taking one T.
PlainWrapper(c_type_extended) ==
  CppAndCMethod("qtcw_show", "show", GlobalScope, NoFlags,
                <<CppType(c_type_extended.cpp_base, c_type_extended.cpp_unspecified)>>,
                <<CppType("void", TRUE)>>, "Heap", VoidType,
                <<CArgument("arg0", "Argument", 0, c_type_extended)>>)

\* The types of the type map a signature takes: every one process_methods can
\* hand over with a C type.
SignatureTypes ==
  {SignatureType(TypeNames[k]) : k \in {j \in 2..Len(TypeNames) : TypeNames[j] # "QPrivate"}}

PlainPool == {PlainWrapper(t) : t \in SignatureTypes}

RECURSIVE SeqsUpTo(_, _)
SeqsUpTo(S, n) ==
  IF n = 0 THEN {<<>>}
  ELSE LET shorter == SeqsUpTo(S, n - 1) IN
       shorter \cup {Append(q, x) : q \in {r \in shorter : Len(r) = n - 1}, x \in S}

Take(q, k) == [j \in 1..k |-> q[j]]

Drop(q, k) == [j \in 1..(Len(q) - k) |-> q[j + k]]

\* The wrappers of a run, split between the two include files.
PlainInputs ==
  {[u \in Headers |-> IF u = "qpoint" THEN Take(p[1], p[2]) ELSE Drop(p[1], p[2])] :
     p \in {r \in SeqsUpTo(PlainPool, MaxMethods) \X (0..MaxMethods) : r[2] <= Len(r[1])}}

ClassName == "QPoint"

ClassPointer == CTypeExtended(ClassName, TRUE, ClassName, TRUE, "ValueToPointer", FALSE, FALSE)

Kinds == {"constructor", "global_constructor", "destructor", "static", "member", "free"}

ArgumentOptions == {"none", "missing", "plain", "converted"}

CppReturnTypes == {<<>>, <<CppType(ClassName, TRUE)>>, <<CppType("QList", FALSE)>>}

CReturnTypes(cpp_return) ==
  {VoidType} \cup
  {CTypeExtended(ClassName, change # "NoChange", ClassName,
                 cpp_return = <<>> \/ cpp_return[1].unspecified, change, renamed, qflags) :
     change \in {"NoChange", "ValueToPointer", "ReferenceToPointer"},
     renamed \in BOOLEAN, qflags \in BOOLEAN}

ShapedWrapper(c_name, kind, place, flags, cpp_return, c_return, has_this, has_slot, argument) ==
  CppAndCMethod(
    c_name,
    CASE kind \in {"constructor", "global_constructor"} -> ClassName
      [] kind = "destructor" -> "~QPoint"
      [] kind = "static" -> "count"
      [] kind = "member" -> "x"
      [] kind = "free" -> "qHash",
    IF kind \in {"free", "global_constructor"} THEN GlobalScope ELSE ClassName,
    Flags(kind \in {"constructor", "global_constructor"}, kind = "destructor",
          kind = "static", flags.is_protected, flags.is_signal),
    CASE argument = "none" -> <<>>
      [] argument \in {"missing", "plain"} -> <<CppType("int", TRUE)>>
      [] argument = "converted" -> <<CppType("Qt::Flags", TRUE)>>,
    cpp_return, place, c_return,
    (IF has_this THEN <<CArgument("this_ptr", "This", -1, ClassPointer)>> ELSE <<>>)
      \o (CASE argument \in {"none", "missing"} -> <<>>
            [] argument = "plain" ->
                 <<CArgument("arg0", "Argument", 0, SignatureType("int"))>>
            [] argument = "converted" ->
                 <<CArgument("arg0", "Argument", 0,
                             CTypeExtended("Qt_Flags", TRUE, "Qt::Flags", TRUE,
                                           "ReferenceToPointer", TRUE, TRUE))>>)
      \o (IF has_slot THEN <<CArgument("output", "ReturnValue", -1, ClassPointer)>>
          ELSE <<>>))

ShapedFor(cpp_return) ==
  {ShapedWrapper("qtcw_QPoint_wrapper", kind, place, NoFlags, cpp_return, c_return,
                 has_this, has_slot, argument) :
     kind \in Kinds, place \in {"Stack", "Heap"}, c_return \in CReturnTypes(cpp_return),
     has_this \in BOOLEAN, has_slot \in BOOLEAN, argument \in ArgumentOptions}

ShapedPool == UNION {ShapedFor(cpp_return) : cpp_return \in CppReturnTypes}

ShapedInputs == {[u \in {"qpoint"} |-> <<m>>] : m \in ShapedPool}

FilterFlags ==
  {Flags(FALSE, FALSE, FALSE, p, s) : p \in BOOLEAN, s \in BOOLEAN}

FilterName(flags) ==
  CASE flags.is_protected /\ flags.is_signal -> "qtcw_QPoint_protected_signal"
    [] flags.is_protected /\ ~flags.is_signal -> "qtcw_QPoint_protected"
    [] ~flags.is_protected /\ flags.is_signal -> "qtcw_QPoint_signal"
    [] OTHER -> "qtcw_QPoint_public"

\* Well-formed wrappers of a constructor, a destructor and a static method at
\* either allocation place, with every filter flag.
FilterPool ==
  {ShapedWrapper(FilterName(flags), kind, place, flags,
                 IF kind = "constructor" THEN <<CppType(ClassName, TRUE)>>
                 ELSE <<CppType("void", TRUE)>>,
                 IF kind = "constructor" /\ place = "Heap" THEN ClassPointer ELSE VoidType,
                 kind = "destructor",
                 kind = "constructor" /\ place = "Stack",
                 "none") :
     kind \in {"constructor", "destructor", "static"},
     place \in {"Stack", "Heap"}, flags \in FilterFlags}

DistinctNames(q) == \A a, b \in 1..Len(q) : a # b => q[a].c_name # q[b].c_name

FilterInputs ==
  {[u \in {"qpoint"} |-> q] :
     q \in {r \in SeqsUpTo(FilterPool, MaxMethods) : Len(r) > 0 /\ DistinctNames(r)}}

Inputs == PlainInputs \cup ShapedInputs \cup FilterInputs

(***************************************************************************)
(* CGenerator::generate_all and generate_one, one step per loop iteration. *)
(***************************************************************************)
File(kind, unit) == [kind |-> kind, unit |-> unit]

Write(file, unit, text) == [file EXCEPT ![unit] = @ \o text]

\* A slip: signals let through.
keeps_signals(method) == ~method.is_protected

\* The filter of generate_one: protected methods and signals are skipped.
keeps(method) == ~method.is_protected /\ ~method.is_signal

filtered(wrappers) == SelectSeq(wrappers, keeps)

\* The types the declaration loop walks: of each method, the return type and
\* then the argument types.
RECURSIVE ArgumentTypes(_, _)
ArgumentTypes(c_arguments, k) ==
  IF k > Len(c_arguments) THEN <<>>
  ELSE <<c_arguments[k].argument_type>> \o ArgumentTypes(c_arguments, k + 1)

\* A slip: the argument types left out of the declaration loop.
RECURSIVE signature_types_returns_only(_, _)
signature_types_returns_only(ms, k) ==
  IF k > Len(ms) THEN <<>>
  ELSE <<ms[k].c_return_type>> \o signature_types_returns_only(ms, k + 1)

RECURSIVE signature_types(_, _)
signature_types(ms, k) ==
  IF k > Len(ms) THEN <<>>
  ELSE <<ms[k].c_return_type>> \o ArgumentTypes(ms[k].c_arguments, 1)
         \o signature_types(ms, k + 1)

Init ==
  /\ cpp_data \in Inputs
  /\ pc = "start"
  /\ pending = DOMAIN cpp_data
  /\ cur = NoHeader
  /\ all_header_file = <<>>
  /\ created = {}
  /\ h_file = [u \in Headers |-> <<>>]
  /\ cpp_file = [u \in Headers |-> <<>>]
  /\ forward_declared_classes = <<>>
  /\ own_queue = <<>>
  /\ methods = <<>>
  /\ idx = 1
  /\ c_headers = <<>>
  /\ panic = ""

\* panic!(), unwrap() on None or Err, unimplemented!(): the run ends here.
Panics(message) ==
  /\ pc' = "panicked"
  /\ panic' = message

\* generate_all, lines 238-244: the umbrella header is created and opened.
GenerateAllBegin ==
  /\ pc = "start"
  /\ created' = created \cup {File("umbrella", NoHeader)}
  /\ all_header_file' = <<Line("include_guard", "QTCW_H")>>
  /\ pc' = "units"
  /\ UNCHANGED <<cpp_data, pending, cur, h_file, cpp_file, forward_declared_classes,
                 own_queue, methods, idx, c_headers, panic>>

\* A slip: the list of declared names kept from the unit before.
GenerateOneBegin_keeps_declared(include_file) ==
  /\ pc = "units"
  /\ include_file \in pending
  /\ cur' = include_file
  /\ created' = created \cup {File("source", include_file), File("header", include_file)}
  /\ cpp_file' = Write(cpp_file, include_file,
                       <<SourceToken("include", include_file, Body(FALSE, NoExpression))>>)
  /\ h_file' = Write(h_file, include_file,
                     <<Line("include_guard", include_file), Line("include", "qtcw_global.h"),
                       Line("include_cpp", "QtCore"), Line("extern_c_begin", "")>>)
  /\ forward_declared_classes' = forward_declared_classes
  /\ own_queue' = get_types_from_include_file(include_file)
  /\ methods' = <<>>
  /\ idx' = 1
  /\ pc' = "own_types"
  /\ UNCHANGED <<cpp_data, pending, all_header_file, c_headers, panic>>

\* generate_one, lines 384-421: both files are created and their heads written.
GenerateOneBegin(include_file) ==
  /\ pc = "units"
  /\ include_file \in pending
  /\ cur' = include_file
  /\ created' = created \cup {File("source", include_file), File("header", include_file)}
  /\ cpp_file' = Write(cpp_file, include_file,
                       <<SourceToken("include", include_file, Body(FALSE, NoExpression))>>)
  /\ h_file' = Write(h_file, include_file,
                     <<Line("include_guard", include_file), Line("include", "qtcw_global.h"),
                       Line("include_cpp", "QtCore"), Line("extern_c_begin", "")>>)
  /\ forward_declared_classes' = <<>>
  /\ own_queue' = get_types_from_include_file(include_file)
  /\ methods' = <<>>
  /\ idx' = 1
  /\ pc' = "own_types"
  /\ UNCHANGED <<cpp_data, pending, all_header_file, c_headers, panic>>

\* One iteration of the loop of lines 422-438 over the include file's own types.
OwnTypeStep ==
  /\ pc = "own_types"
  /\ own_queue # <<>>
  /\ LET c_type_ex == ToCType(Head(own_queue)) IN
     IF c_type_ex = <<>>
     THEN /\ own_queue' = Tail(own_queue)
          /\ UNCHANGED <<pc, panic, h_file, forward_declared_classes>>
     ELSE LET r == generate_type_declaration(c_type_ex[1], cur, forward_declared_classes)
          IN IF r.failure # ""
             THEN /\ Panics(r.failure)
                  /\ UNCHANGED <<own_queue, h_file, forward_declared_classes>>
             ELSE /\ h_file' = Write(h_file, cur, r.text)
                  /\ forward_declared_classes' = r.declared
                  /\ own_queue' = Tail(own_queue)
                  /\ UNCHANGED <<pc, panic>>
  /\ UNCHANGED <<cpp_data, pending, cur, all_header_file, created, cpp_file, methods,
                 idx, c_headers>>

\* Lines 440-458: the wrappers of the include file, filtered.
ProcessMethods ==
  /\ pc = "own_types"
  /\ own_queue = <<>>
  /\ methods' = filtered(cpp_data[cur])
  /\ idx' = 1
  /\ pc' = IF signature_types(filtered(cpp_data[cur]), 1) = <<>> THEN "emit" ELSE "declare"
  /\ UNCHANGED <<cpp_data, pending, cur, all_header_file, created, h_file, cpp_file,
                 forward_declared_classes, own_queue, c_headers, panic>>

\* One generate_type_declaration call of the loop of lines 459-474.
DeclareStep ==
  /\ pc = "declare"
  /\ LET items == signature_types(methods, 1)
         r == generate_type_declaration(items[idx], cur, forward_declared_classes)
     IN IF r.failure # ""
        THEN /\ Panics(r.failure)
             /\ UNCHANGED <<h_file, forward_declared_classes, idx>>
        ELSE /\ h_file' = Write(h_file, cur, r.text)
             /\ forward_declared_classes' = r.declared
             /\ idx' = IF idx = Len(items) THEN 1 ELSE idx + 1
             /\ pc' = IF idx = Len(items) THEN "emit" ELSE "declare"
             /\ UNCHANGED panic
  /\ UNCHANGED <<cpp_data, pending, cur, all_header_file, created, cpp_file, own_queue,
                 methods, c_headers>>

\* One iteration of the loop of lines 477-480: the declaration goes to the
\* header, then the definition to the source file.
EmitStep ==
  /\ pc = "emit"
  /\ idx <= Len(methods)
  /\ h_file' = Write(h_file, cur, <<header_code(methods[idx])>>)
  /\ LET code == source_code(methods[idx]) IN
     IF code.failure # ""
     THEN /\ Panics(code.failure)
          /\ UNCHANGED <<cpp_file, idx>>
     ELSE /\ cpp_file' = Write(cpp_file, cur, <<code.value>>)
          /\ idx' = idx + 1
          /\ UNCHANGED <<pc, panic>>
  /\ UNCHANGED <<cpp_data, pending, cur, all_header_file, created, forward_declared_classes,
                 own_queue, methods, c_headers>>

\* Lines 482-488 of generate_one and 247-248 of generate_all: the header is
\* closed, the unit's CHeaderData returned and its include line written.
GenerateOneEnd ==
  /\ pc = "emit"
  /\ idx > Len(methods)
  /\ h_file' = Write(h_file, cur, <<Line("extern_c_end", ""), Line("endif", cur)>>)
  /\ c_headers' = Append(c_headers, [include_file |-> cur, methods |-> methods])
  /\ all_header_file' = Append(all_header_file, Line("include", cur))
  /\ pending' = pending \ {cur}
  /\ pc' = "units"
  /\ UNCHANGED <<cpp_data, cur, created, cpp_file, forward_declared_classes, own_queue,
                 methods, idx, panic>>

\* generate_all, lines 252-257.
GenerateAllEnd ==
  /\ pc = "units"
  /\ pending = {}
  /\ all_header_file' = Append(all_header_file, Line("endif", "QTCW_H"))
  /\ pc' = "done"
  /\ UNCHANGED <<cpp_data, pending, cur, created, h_file, cpp_file,
                 forward_declared_classes, own_queue, methods, idx, c_headers, panic>>

Next ==
  \/ GenerateAllBegin
  \/ \E include_file \in Headers : GenerateOneBegin(include_file)
  \/ OwnTypeStep
  \/ ProcessMethods
  \/ DeclareStep
  \/ EmitStep
  \/ GenerateOneEnd
  \/ GenerateAllEnd

Spec == Init /\ [][Next]_vars

(***************************************************************************)
(* What the properties below read off the generated text.                  *)
(***************************************************************************)
DeclarationForms ==
  {"struct_full", "struct_forward", "enum_full", "enum_forward", "flags_typedef",
   "typedef", "rename_typedef"}

IsTypeDeclaration(token) == token.form \in DeclarationForms

IsMethodDeclaration(token) == token.form = "method_declaration"

\* The C++ types of the type map that go by a C name.
CppNamesOf(c_base) == {n \in DOMAIN types : CName(n) = c_base}

\* A C type name the header has to declare before it is used: a class, an
\* enum, a flags type or a typedef of the library, or a renamed type.
NeedsDeclaration(c_base) ==
  \E n \in CppNamesOf(c_base) :
     \/ types[n].origin = "Qt" /\ types[n].kind \in {"Class", "Enum", "Flags", "TypeDef"}
     \/ types[n].origin \in {"Qt", "CBuiltIn"} /\ CName(n) # n

Units == DOMAIN cpp_data

HeaderNames(u) ==
  {h_file[u][k].name : k \in {j \in 1..Len(h_file[u]) : IsMethodDeclaration(h_file[u][j])}}

SourceTokens(u) ==
  {cpp_file[u][k] : k \in {j \in 1..Len(cpp_file[u]) : cpp_file[u][j].form = "method_definition"}}

SourceNames(u) == {t.name : t \in SourceTokens(u)}

\* The wrappers some output of the unit shows: a declaration or a definition.
Emitted(u) ==
  {cpp_data[u][k] : k \in {j \in 1..Len(cpp_data[u]) :
                             cpp_data[u][j].c_name \in HeaderNames(u) \cup SourceNames(u)}}

\* The wrappers whose body the source file of the unit holds.
Defined(u) ==
  {cpp_data[u][k] : k \in {j \in 1..Len(cpp_data[u]) : cpp_data[u][j].c_name \in SourceNames(u)}}

Returned(u) ==
  UNION {{c_headers[e].methods[k] : k \in 1..Len(c_headers[e].methods)} :
           e \in {j \in 1..Len(c_headers) : c_headers[j].include_file = u}}

Finished(u) == \E e \in 1..Len(c_headers) : c_headers[e].include_file = u

HasRole(m, role, index) == Find(m.c_arguments, role, index) # <<>>

(***************************************************************************)
(* C1: in a generated header no declaration of a C type name is written    *)
(* twice; a renaming typedef counts, and so does a type of built-in origin.*)
(***************************************************************************)
\* Two texts a compiler of one language both reads: in the same guard, or
\* one of them unguarded.
SameContext(a, b) == a.ctx = b.ctx \/ a.ctx = "any" \/ b.ctx = "any"

C1_DeclaredAtMostOnce ==
  \A u \in Units : \A i, j \in 1..Len(h_file[u]) :
     (i < j /\ IsTypeDeclaration(h_file[u][i]) /\ IsTypeDeclaration(h_file[u][j])
        /\ SameContext(h_file[u][i], h_file[u][j]))
       => h_file[u][i].name # h_file[u][j].name

(***************************************************************************)
(* C2: when generation fails, no output exists: no file of a unit and no   *)
(* umbrella header has been created or written.                            *)
(***************************************************************************)
C2_NoOutputOnFailure ==
  pc = "panicked" =>
    /\ created = {}
    /\ all_header_file = <<>>
    /\ \A u \in Units : h_file[u] = <<>> /\ cpp_file[u] = <<>>

(***************************************************************************)
(* C3: a class without a recorded size is never declared in the unit of    *)
(* its own header: the full declaration it needs there is fatal, and no    *)
(* forward declaration or sized struct stands in for it.                   *)
(***************************************************************************)
UnsizedOwnClass(u, c_base) ==
  \E n \in CppNamesOf(c_base) :
     /\ types[n].origin = "Qt" /\ types[n].include_file = u
     /\ types[n].kind = "Class" /\ types[n].size = <<>>

C3_UnsizedFullDeclarationIsFatal ==
  \A u \in Units : \A k \in 1..Len(h_file[u]) :
     h_file[u][k].form \in {"struct_full", "struct_forward"}
       => ~UnsizedOwnClass(u, h_file[u][k].name)

\* A method that hands a class back by value: the case in which the
\* allocation place decides where the value goes.
ReturnsClassByValue(m) ==
  /\ ~m.is_constructor /\ ~m.is_destructor
  /\ m.return_type # <<>>
  /\ m.return_type[1].unspecified
  /\ m.return_type[1].base \in DOMAIN types
  /\ types[m.return_type[1].base].kind = "Class"
  /\ m.c_return_type.indirection_change # "ReferenceToPointer"

(***************************************************************************)
(* C4: a wrapper with the Stack allocation place that shows in the output  *)
(* has the void C return type and, where the place applies (a constructor, *)
(* a class returned by value), a ReturnValue argument; a Stack wrapper     *)
(* with another C return type is fatal and leaves nothing of the method in *)
(* the header or the source file, whatever its indirection change.         *)
(***************************************************************************)
C4_StackWrapperReturnsVoid ==
  \A u \in Units : \A m \in Emitted(u) :
     m.allocation_place = "Stack" =>
       /\ m.c_return_type = VoidType
       /\ (m.is_constructor \/ ReturnsClassByValue(m)) => HasRole(m, "ReturnValue", -1)

(***************************************************************************)
(* C5: a wrapper whose body is in the source file has every argument role  *)
(* the body needs: Argument(i) for each C++ argument, This for destructors *)
(* and non-static class methods, ReturnValue for Stack constructors and    *)
(* for Stack methods that return a class by value.                         *)
(***************************************************************************)
RequiredRolesPresent(m) ==
  /\ \A i \in 1..Len(m.arguments) : HasRole(m, "Argument", i - 1)
  /\ (m.is_destructor \/ (~m.is_constructor /\ m.scope # GlobalScope /\ ~m.is_static))
       => HasRole(m, "This", -1)
  /\ (m.allocation_place = "Stack" /\ (m.is_constructor \/ ReturnsClassByValue(m)))
       => HasRole(m, "ReturnValue", -1)

C5_MissingRoleIsFatal ==
  \A u \in Units : \A m \in Defined(u) : RequiredRolesPresent(m)

(***************************************************************************)
(* C6: an own type of the include file that to_c_type refuses ends the     *)
(* generation of the unit: generation never goes on past such a type.      *)
(***************************************************************************)
\* The own types of the current unit the loop has been through.
OwnTypesDone ==
  LET all == get_types_from_include_file(cur) IN
  {all[k] : k \in 1..(Len(all) - Len(own_queue))}

C6_UntranslatableOwnTypeAborts ==
  (cur \in Headers /\ pc \in {"own_types", "declare", "emit", "units", "done"})
    => \A n \in OwnTypesDone : ToCType(n) # <<>>

(***************************************************************************)
(* C7: in a header, every type of a method's C signature that needs a      *)
(* declaration is declared above the method's declaration, and no type     *)
(* declaration follows a method declaration.                               *)
(***************************************************************************)
SignatureNames(token) == {token.of} \cup {token.values[k][1] : k \in 1..Len(token.values)}

C7_DeclarationsPrecedeMethods ==
  \A u \in Units : \A j \in 1..Len(h_file[u]) :
     IsMethodDeclaration(h_file[u][j]) =>
       /\ \A n \in SignatureNames(h_file[u][j]) :
            NeedsDeclaration(n) =>
              \E i \in 1..(j - 1) : IsTypeDeclaration(h_file[u][i]) /\ h_file[u][i].name = n
       /\ \A i \in (j + 1)..Len(h_file[u]) : ~IsTypeDeclaration(h_file[u][i])

\* Two method declarations in a header, one of them over a type of another
\* include file, which only the declaration loop declares.
C7_Witness ==
  \E u \in Units :
     /\ Cardinality({j \in 1..Len(h_file[u]) : IsMethodDeclaration(h_file[u][j])}) >= 2
     /\ \E j \in 1..Len(h_file[u]) :
          /\ IsMethodDeclaration(h_file[u][j])
          /\ \E n \in SignatureNames(h_file[u][j]) :
               /\ NeedsDeclaration(n)
               /\ \A c \in CppNamesOf(n) : types[c].include_file # u

(***************************************************************************)
(* C8: a class or an enum declared in the header of a unit other than the  *)
(* one of its own include file is declared forward only: a struct tag and  *)
(* typedef without a sized payload, an enum tag without enumerators.       *)
(***************************************************************************)
ForeignTo(u, c_base) == \A n \in CppNamesOf(c_base) : types[n].include_file # u

C8_ForeignTypesForwardOnly ==
  \A u \in Units : \A k \in 1..Len(h_file[u]) :
     LET t == h_file[u][k] IN
     (t.form \in {"struct_full", "struct_forward", "enum_full", "enum_forward"}
        /\ ForeignTo(u, t.name))
       => t.form \in {"struct_forward", "enum_forward"} /\ t.size = -1 /\ t.values = <<>>

\* A header that declares a class and an enum of another include file.
C8_Witness ==
  \E u \in Units :
     /\ \E k \in 1..Len(h_file[u]) :
          h_file[u][k].form = "struct_forward" /\ ForeignTo(u, h_file[u][k].name)
     /\ \E k \in 1..Len(h_file[u]) :
          h_file[u][k].form = "enum_forward" /\ ForeignTo(u, h_file[u][k].name)

(***************************************************************************)
(* C9: a protected method or a signal is in no header, no source file and  *)
(* no returned list of wrapped methods, whatever its kind and allocation   *)
(* place; every other method of a generated unit is in all three.          *)
(***************************************************************************)
C9_FilteredMethodsAbsent ==
  \A u \in Units : \A k \in 1..Len(cpp_data[u]) :
     LET m == cpp_data[u][k] IN
     /\ (m.is_protected \/ m.is_signal) =>
          /\ m.c_name \notin HeaderNames(u)
          /\ m.c_name \notin SourceNames(u)
          /\ m \notin Returned(u)
     /\ (Finished(u) /\ ~m.is_protected /\ ~m.is_signal) =>
          /\ m.c_name \in HeaderNames(u)
          /\ m.c_name \in SourceNames(u)
          /\ m \in Returned(u)

\* A generated unit with a method the filter drops and one it keeps.
C9_Witness ==
  \E u \in Units :
     /\ Finished(u)
     /\ \E k \in 1..Len(cpp_data[u]) :
          cpp_data[u][k].is_signal /\ cpp_data[u][k].is_constructor
     /\ \E k \in 1..Len(cpp_data[u]) :
          ~cpp_data[u][k].is_protected /\ ~cpp_data[u][k].is_signal

(***************************************************************************)
(* C10: the return wrapping goes (a) indirection change, (b)               *)
(* reinterpretation of a renamed type, (c) narrowing of flags; the         *)
(* construction in place in the ReturnValue argument is part of (a), so no *)
(* reinterpretation and no narrowing lies inside it: along the layers of a *)
(* body, innermost first, the steps never go back.                         *)
(***************************************************************************)
ReturnLayers(u) ==
  {t.body.expression.layers : t \in {d \in SourceTokens(u) : d.body.expression.kind # "delete"}}

ClaimedStep(layer) ==
  CASE layer.op \in {"new", "address_of", "placement_new"} -> 1
    [] layer.op = "reinterpret_cast" -> 2
    [] layer.op = "uint" -> 3

C10_StackConstructionInnermost ==
  \A u \in Units : \A layers \in ReturnLayers(u) :
     \A i, j \in 1..Len(layers) :
        i < j => ClaimedStep(layers[i]) <= ClaimedStep(layers[j])

(***************************************************************************)
(* C11: every call of generate_type_declaration that does not fail leaves  *)
(* the C name of its type in already_declared, whatever the kind and the   *)
(* origin of the type, built-in types included, so that a repeated call    *)
(* returns empty text.  Read once the declaration loop of a unit is over:  *)
(* every type the loops were called with is recorded, and a further call   *)
(* with it writes nothing.                                                 *)
(***************************************************************************)
\* The types generate_type_declaration was called with, without failure, in
\* the unit being generated, once its two declaration loops are over.
DeclaredTypes ==
  {ToCType(n)[1] : n \in {x \in DOMAIN types : types[x].include_file = cur /\ ToCType(x) # <<>>}}
    \cup {signature_types(methods, 1)[k] : k \in 1..Len(signature_types(methods, 1))}

C11_CallRecordsTheType ==
  pc = "emit" =>
    \A t \in DeclaredTypes :
       /\ Contains(forward_declared_classes, t.c_base)
       /\ generate_type_declaration(t, cur, forward_declared_classes).text = <<>>

(***************************************************************************)
(* C12: the call target of a wrapper body follows the kind of the method   *)
(* and its allocation place: a constructor is `new Class(args)` on the     *)
(* heap, with no heap copy around it, and a construction in place in the   *)
(* ReturnValue argument on the stack; a destructor is an explicit          *)
(* destructor call on the This argument on the stack and a `delete` of it  *)
(* on the heap; a static method of a class is `Class::name(args)`, another *)
(* method of a class `this->name(args)`, a free function `name(args)`.     *)
(***************************************************************************)
ArgumentName(m, role) == Find(m.c_arguments, role, -1)[1].name

IsTarget(e, kind, qualifier, name) ==
  e.kind = kind /\ e.qualifier = qualifier /\ e.name = name

HasHeapCopy(e) == \E k \in 1..Len(e.layers) : e.layers[k].op = "new"

ClaimedTarget(m, e) ==
  CASE m.is_destructor /\ m.allocation_place = "Stack" ->
         HasRole(m, "This", -1)
           /\ IsTarget(e, "qtcw_call_destructor", ArgumentName(m, "This"), "")
    [] m.is_destructor /\ m.allocation_place = "Heap" ->
         HasRole(m, "This", -1) /\ IsTarget(e, "delete", ArgumentName(m, "This"), "")
    [] ~m.is_destructor /\ m.is_constructor /\ m.allocation_place = "Heap" ->
         IsTarget(e, "new", "", m.scope) /\ Len(e.args) = Len(m.arguments)
           /\ ~HasHeapCopy(e)
    [] ~m.is_destructor /\ m.is_constructor /\ m.allocation_place = "Stack" ->
         HasRole(m, "ReturnValue", -1)
           /\ IsTarget(e, "placement_new", ArgumentName(m, "ReturnValue"), m.scope)
           /\ Len(e.args) = Len(m.arguments)
    [] ~m.is_destructor /\ ~m.is_constructor /\ m.scope # GlobalScope /\ m.is_static ->
         IsTarget(e, "static_call", m.scope, m.name) /\ Len(e.args) = Len(m.arguments)
    [] ~m.is_destructor /\ ~m.is_constructor /\ m.scope # GlobalScope /\ ~m.is_static ->
         HasRole(m, "This", -1)
           /\ IsTarget(e, "member_call", ArgumentName(m, "This"), m.name)
           /\ Len(e.args) = Len(m.arguments)
    [] ~m.is_destructor /\ ~m.is_constructor /\ m.scope = GlobalScope ->
         IsTarget(e, "free_call", "", m.name) /\ Len(e.args) = Len(m.arguments)

C12_CallTargetByKindAndPlace ==
  \A u \in Units : \A m \in Defined(u) : \A t \in SourceTokens(u) :
     t.name = m.c_name => ClaimedTarget(m, t.body.expression)

\* The source file holds the body of a heap constructor whose C return type
\* turns a value into a pointer: the case of the heap copy left out.
C12_Witness ==
  \E u \in Units : \E m \in Defined(u) :
     /\ m.is_constructor /\ ~m.is_destructor /\ m.allocation_place = "Heap"
     /\ m.c_return_type.indirection_change = "ValueToPointer"
     /\ Len(m.arguments) > 0

(***************************************************************************)
(* C13: the list of declared names is empty when the generation of a unit  *)
(* starts and nothing of it goes over to the next unit, so the text of a   *)
(* unit is the same whatever units were generated before it and in         *)
(* whatever order: it is the text of the unit generated on its own.        *)
(***************************************************************************)
\* The own types of an include file that to_c_type translates, in order.
RECURSIVE OwnCTypes(_, _)
OwnCTypes(names, k) ==
  IF k > Len(names) THEN <<>>
  ELSE (IF ToCType(names[k]) = <<>> THEN <<>> ELSE <<ToCType(names[k])[1]>>)
         \o OwnCTypes(names, k + 1)

\* The declarations of a sequence of types, from a list of declared names on.
RECURSIVE DeclareAll(_, _, _, _)
DeclareAll(items, k, include_file, acc) ==
  IF k > Len(items) \/ acc.failure # "" THEN acc
  ELSE LET r == generate_type_declaration(items[k], include_file, acc.declared) IN
       DeclareAll(items, k + 1, include_file,
                  DeclResult(acc.text \o r.text, r.declared, r.failure))

RECURSIVE HeaderCodes(_, _)
HeaderCodes(ms, k) ==
  IF k > Len(ms) THEN <<>> ELSE <<header_code(ms[k])>> \o HeaderCodes(ms, k + 1)

RECURSIVE SourceCodes(_, _)
SourceCodes(ms, k) ==
  IF k > Len(ms) THEN <<>> ELSE <<source_code(ms[k]).value>> \o SourceCodes(ms, k + 1)

\* The header and the source file of a unit generated on its own, from an
\* empty list of declared names.
UnitHeader(include_file, wrappers) ==
  <<Line("include_guard", include_file), Line("include", "qtcw_global.h"),
    Line("include_cpp", "QtCore"), Line("extern_c_begin", "")>>
    \o DeclareAll(OwnCTypes(get_types_from_include_file(include_file), 1)
                    \o signature_types(filtered(wrappers), 1),
                  1, include_file, DeclResult(<<>>, <<>>, "")).text
    \o HeaderCodes(filtered(wrappers), 1)
    \o <<Line("extern_c_end", ""), Line("endif", include_file)>>

UnitSource(include_file, wrappers) ==
  <<SourceToken("include", include_file, Body(FALSE, NoExpression))>>
    \o SourceCodes(filtered(wrappers), 1)

\* The generation of the unit has started and declared no type yet.
AtUnitStart ==
  pc = "own_types" /\ own_queue = get_types_from_include_file(cur)

C13_UnitTextIndependentOfOrder ==
  /\ AtUnitStart => forward_declared_classes = <<>>
  /\ \A u \in Units :
        Finished(u) => /\ h_file[u] = UnitHeader(u, cpp_data[u])
                       /\ cpp_file[u] = UnitSource(u, cpp_data[u])

\* Both units are generated, qobject before qpoint, each with a wrapper, and
\* the header written second declares a name the first one declared too.
C13_Witness ==
  /\ pc = "done"
  /\ Len(c_headers) = 2
  /\ c_headers[1].include_file = "qobject"
  /\ \A e \in 1..2 : Len(c_headers[e].methods) > 0
  /\ \E i \in 1..Len(h_file["qobject"]) : \E j \in 1..Len(h_file["qpoint"]) :
        /\ IsTypeDeclaration(h_file["qobject"][i])
        /\ IsTypeDeclaration(h_file["qpoint"][j])
        /\ h_file["qobject"][i].name = h_file["qpoint"][j].name

====
